---- MODULE Spec2Model ----
(***************************************************************************)
(* The three scripts of the repository, each run as its own Python         *)
(* process:                                                                *)
(*   backend/src/modules/ads/adGenerator.py       generate_ad_copy         *)
(*   backend/src/modules/brand/brandDNA.py        query_brand_knowledge    *)
(*   backend/src/modules/learning/feedManager.py  the feed script          *)
(* A behaviour runs one of them (variable module).  The hosted services    *)
(* and the libraries the scripts call are the environment: what they       *)
(* answer, and whether they fail, is chosen nondeterministically.          *)
(* Python strings whose characters matter are sequences of one-character   *)
(* strings.                                                                *)
(***************************************************************************)
EXTENDS Naturals, Sequences, FiniteSets

VARIABLES
    module,           \* the script this process runs
    pc,               \* the line the interpreter is at, or how the run ended
    raised,           \* the exception that propagated out of the last step
    outcome,          \* what the last external call answered
    api_key,          \* adGenerator: openai.api_key
    product_name,     \* adGenerator: the arguments of the call
    product_details,
    requests,         \* adGenerator: requests sent to the service, in order
    returned,         \* the value the last call of a function returned
    brand_docs,       \* brandDNA: the directory 'brand_docs' on disk
    documents,        \* brandDNA, feedManager: the module-level name documents
    index,            \* brandDNA: the module-level name index
    loads,            \* brandDNA: calls of load_data made
    builds,           \* brandDNA: calls of from_documents made
    queries,          \* brandDNA: calls of query_brand_knowledge made
    loader,           \* feedManager: the module-level name loader
    stdout            \* feedManager: the lines printed

vars == <<module, pc, raised, outcome, api_key, product_name,
          product_details, requests, returned, brand_docs, documents, index,
          loads, builds, queries, loader, stdout>>

adVars == <<api_key, product_name, product_details, requests>>
brandVars == <<brand_docs, index, loads, builds, queries>>
feedVars == <<loader, stdout>>

\* ---------------------------------------------------------------- bounds

MaxNameLen == 2
MaxDetailsLen == 1
MaxTextLen == 3
MaxChoices == 2
MaxFiles == 2
MaxQueries == 2
MaxDocs == 11

\* ---------------------------------------------------------------- values

\* Python's None, and a name not bound yet.
None == [kind |-> "None"]
\* A Python str.
Str(s) == [kind |-> "str", s |-> s]
\* A Python list.
List(l) == [kind |-> "list", l |-> l]
\* What a call that raised gives its caller: no value at all.
NoValue == [kind |-> "no value"]

NoError == "no error"

RECURSIVE SeqsUpTo(_, _)
SeqsUpTo(S, n) ==
    IF n = 0 THEN {<<>>}
    ELSE LET shorter == SeqsUpTo(S, n - 1)
         IN shorter \cup {Append(s, c) : s \in shorter, c \in S}

\* The characters str.strip() removes (those TLA+ can write; Python's set
\* also holds \v, \x1c-\x1f, \x85, \xa0 and the Unicode spaces).
Whitespace == {" ", "\t", "\n", "\r", "\f"}

InputChars == {"X", "'", " "}
TextChars == {"a", " ", "\n"}

Names == SeqsUpTo(InputChars, MaxNameLen)
Details == SeqsUpTo(InputChars, MaxDetailsLen)
Texts == SeqsUpTo(TextChars, MaxTextLen)

\* ------------------------------------------------------- adGenerator.py

\* The literal text of the three f-string pieces of the prompt.
Line12Head ==
    <<"W", "r", "i", "t", "e", " ", "a", " ", "c", "o", "m", "p", "e", "l",
      "l", "i", "n", "g", " ", "a", "d", " ", "f", "o", "r", " ", "t", "h",
      "e", " ", "p", "r", "o", "d", "u", "c", "t", " ", "'">>
Line12Tail ==
    <<"'", ".", " ">>
Line13Head ==
    <<"H", "i", "g", "h", "l", "i", "g", "h", "t", ":", " ">>
Line13Tail ==
    <<".", " ">>
Line14 ==
    <<"I", "n", "c", "l", "u", "d", "e", " ", "a", " ", "c", "l", "e", "a",
      "r", " ", "c", "a", "l", "l", "-", "t", "o", "-", "a", "c", "t", "i",
      "o", "n", ".">>

\* A slip: the second piece repeats the name instead of the details.
prompt_name_twice(name, details) ==
    Line12Head \o name \o Line12Tail \o Line13Head \o name \o Line13Tail
        \o Line14

\* Lines 11-15: the three pieces, concatenated.
prompt(name, details) ==
    Line12Head \o name \o Line12Tail \o Line13Head \o details \o Line13Tail
        \o Line14

\* Lines 16-20: the one request of a call.
ChatCompletionRequest(content) ==
    [model |-> "gpt-4",
     messages |-> <<[role |-> "user", content |-> content]>>,
     temperature |-> "0.8"]

\* What openai.ChatCompletion.create can do: raise, or return a response
\* with any number of choices, a choice's message.content a str or None.
ServiceErrors == {"network failure", "authentication failure", "rate limited"}

Contents == {None} \cup {Str(t) : t \in Texts}

\* The contents drawn for the choices after the first.
LaterContents == {None, Str(<<" ", "a">>)}

Choice(c) == [message |-> [content |-> c]]

Responses ==
    {[kind |-> "response", choices |-> <<>>]} \cup
    {[kind |-> "response", choices |-> <<Choice(c)>> \o rest] :
        c \in Contents,
        rest \in SeqsUpTo({Choice(x) : x \in LaterContents}, MaxChoices - 1)}

\* With no key configured (openai.api_key is None, and so is the environment
\* variable the client would fall back on) the client refuses the call.
ServiceOutcomes(key) ==
    IF key = None
    THEN {[kind |-> "error", error |-> "authentication failure"]}
    ELSE {[kind |-> "error", error |-> e] : e \in ServiceErrors} \cup Responses

\* str.lstrip(), str.rstrip() and str.strip() with no argument.
RECURSIVE lstrip(_)
lstrip(s) ==
    IF s = <<>> THEN s
    ELSE IF Head(s) \in Whitespace THEN lstrip(Tail(s)) ELSE s

RECURSIVE rstrip(_)
rstrip(s) ==
    IF s = <<>> THEN s
    ELSE IF s[Len(s)] \in Whitespace THEN rstrip(SubSeq(s, 1, Len(s) - 1))
    ELSE s

\* A slip: only the leading whitespace is removed.
strip_leading_only(s) == lstrip(s)

strip(s) == rstrip(lstrip(s))

\* A slip: choices[-1], the last choice.
last_choice(choices) == choices[Len(choices)]

\* Line 21, response.choices[0]: the first choice (TLA+ counts from 1).
first_choice(choices) == choices[1]

\* A slip: the call wrapped in try/except, an empty string returned on failure.
CompletionCaught(reply) ==
    IF reply.kind = "error"
    THEN [raised |-> NoError, returned |-> Str(<<>>)]
    ELSE IF reply.choices = <<>>
    THEN [raised |-> "IndexError", returned |-> NoValue]
    ELSE LET content == first_choice(reply.choices).message.content
         IN IF content = None
            THEN [raised |-> "AttributeError", returned |-> NoValue]
            ELSE [raised |-> NoError, returned |-> Str(strip(content.s))]

\* A slip: (content or "").strip(), a missing text taken for an empty one.
CompletionDefaulted(reply) ==
    IF reply.kind = "error"
    THEN [raised |-> reply.error, returned |-> NoValue]
    ELSE IF reply.choices = <<>>
    THEN [raised |-> "IndexError", returned |-> NoValue]
    ELSE LET content == first_choice(reply.choices).message.content
         IN IF content = None
            THEN [raised |-> NoError, returned |-> Str(<<>>)]
            ELSE [raised |-> NoError, returned |-> Str(strip(content.s))]

\* Lines 16-22, from the service's answer on: an exception of the call leaves
\* the function as it is; choices[0] of an empty list is an IndexError;
\* None has no strip, an AttributeError; else the stripped text is returned.
Completion(reply) ==
    IF reply.kind = "error"
    THEN [raised |-> reply.error, returned |-> NoValue]
    ELSE IF reply.choices = <<>>
    THEN [raised |-> "IndexError", returned |-> NoValue]
    ELSE LET content == first_choice(reply.choices).message.content
         IN IF content = None
            THEN [raised |-> "AttributeError", returned |-> NoValue]
            ELSE [raised |-> NoError, returned |-> Str(strip(content.s))]

\* Line 7, and the def of line 9: the module is imported.
ImportAdGenerator ==
    /\ module = "adGenerator"
    /\ pc = "line7"
    /\ \E key \in {None, Str(<<"s", "k">>)} : api_key' = key
    /\ pc' = "imported"
    /\ UNCHANGED <<module, raised, outcome, product_name, product_details,
                   requests, returned, documents, brandVars, feedVars>>

\* Lines 9-22: one call.
generate_ad_copy(name, details) ==
    /\ module = "adGenerator"
    /\ pc = "imported"
    /\ product_name' = Str(name)
    /\ product_details' = Str(details)
    /\ requests' = Append(requests, ChatCompletionRequest(prompt(name, details)))
    /\ \E reply \in ServiceOutcomes(api_key) :
        /\ outcome' = reply
        /\ raised' = Completion(reply).raised
        /\ returned' = Completion(reply).returned
        /\ pc' = IF Completion(reply).raised = NoError
                 THEN "returned" ELSE "raised"
    /\ UNCHANGED <<module, api_key, documents, brandVars, feedVars>>

Call_generate_ad_copy ==
    \E name \in Names, details \in Details : generate_ad_copy(name, details)

\* ---------------------------------------------------------- brandDNA.py

\* The directory 'brand_docs': missing, or holding some files.
Missing == [kind |-> "missing"]
Directory(files) == [kind |-> "directory", files |-> files]
Directories == {Missing} \cup {Directory(fs) : fs \in SUBSET (1 .. MaxFiles)}

Min(S) == CHOOSE x \in S : \A y \in S : x <= y

RECURSIVE Sorted(_)
Sorted(S) == IF S = {} THEN <<>> ELSE <<Min(S)>> \o Sorted(S \ {Min(S)})

\* Line 7, load_data(): one document per file, in the order of the names.
load_data(dir) ==
    List([i \in 1 .. Cardinality(dir.files) |-> [file |-> Sorted(dir.files)[i]]])

\* Line 9, from_documents(): the index holds what it was built from.
from_documents(docs) == [kind |-> "index", nodes |-> docs.l]

\* Line 7.  The reader raises for a missing or an empty directory; reading
\* the files may fail; else documents is bound.
LoadBrandDocuments ==
    /\ module = "brandDNA"
    /\ pc = "line7"
    /\ IF brand_docs = Missing \/ brand_docs.files = {}
       THEN /\ raised' = "ValueError"
            /\ outcome' = [kind |-> "error", error |-> "ValueError"]
            /\ pc' = "raised"
            /\ UNCHANGED <<documents, loads>>
       ELSE /\ loads' = loads + 1
            /\ \/ /\ outcome' = [kind |-> "loaded"]
                  /\ documents' = load_data(brand_docs)
                  /\ pc' = "line9"
                  /\ UNCHANGED raised
               \/ /\ outcome' = [kind |-> "error", error |-> "read failure"]
                  /\ raised' = "read failure"
                  /\ pc' = "raised"
                  /\ UNCHANGED documents
    /\ UNCHANGED <<module, returned, adVars, brand_docs, index, builds,
                   queries, feedVars>>

\* A slip: the build wrapped in try/except, the import going on without an
\* index.
BuildBrandIndexSwallowed ==
    /\ module = "brandDNA"
    /\ pc = "line9"
    /\ builds' = builds + 1
    /\ \/ /\ outcome' = [kind |-> "built"]
          /\ index' = from_documents(documents)
       \/ /\ outcome' = [kind |-> "error", error |-> "build failure"]
          /\ UNCHANGED index
    /\ pc' = "line11"
    /\ UNCHANGED <<module, raised, returned, adVars, brand_docs, documents,
                   loads, queries, feedVars>>

\* Line 9.  The build may fail; else index is bound.
BuildBrandIndex ==
    /\ module = "brandDNA"
    /\ pc = "line9"
    /\ builds' = builds + 1
    /\ \/ /\ outcome' = [kind |-> "built"]
          /\ index' = from_documents(documents)
          /\ pc' = "line11"
          /\ UNCHANGED raised
       \/ /\ outcome' = [kind |-> "error", error |-> "build failure"]
          /\ raised' = "build failure"
          /\ pc' = "raised"
          /\ UNCHANGED index
    /\ UNCHANGED <<module, returned, adVars, brand_docs, documents, loads,
                   queries, feedVars>>

\* Line 11: the def binds query_brand_knowledge; the import is complete.
DefineQueryBrandKnowledge ==
    /\ module = "brandDNA"
    /\ pc = "line11"
    /\ pc' = "imported"
    /\ UNCHANGED <<module, raised, outcome, returned, adVars, documents,
                   brandVars, feedVars>>

Queries == {"tone", "colors"}

Digits == <<"0", "1", "2", "3", "4", "5", "6", "7", "8", "9">>

\* What index.query can do on an index: raise, or return a response whose
\* text is None or drawn from a node of the index.
QueryOutcomes(ix) ==
    {[kind |-> "error", error |-> "query failure"],
     [kind |-> "response", response |-> None]} \cup
    {[kind |-> "response", response |-> Str(<<"d", Digits[n.file + 1]>>)] :
        n \in {ix.nodes[i] : i \in DOMAIN ix.nodes}}

\* Line 15, str(response): the response's text, "None" when it has none.
str(response) ==
    IF response.response = None THEN Str(<<"N", "o", "n", "e">>)
    ELSE response.response

\* A slip: the index built on demand, by every query.
query_rebuilding(query) ==
    /\ module = "brandDNA"
    /\ pc = "imported"
    /\ queries < MaxQueries
    /\ queries' = queries + 1
    /\ loads' = loads + 1
    /\ builds' = builds + 1
    /\ documents' = load_data(brand_docs)
    /\ index' = from_documents(load_data(brand_docs))
    /\ \E reply \in QueryOutcomes(index) :
        /\ outcome' = [kind |-> reply.kind, query |-> query, reply |-> reply]
        /\ IF reply.kind = "error"
           THEN raised' = reply.error /\ returned' = NoValue
           ELSE raised' = NoError /\ returned' = str(reply)
    /\ UNCHANGED <<module, pc, adVars, brand_docs, feedVars>>

\* A slip: the query text inserted into the index as one more node.
query_inserting(query) ==
    /\ module = "brandDNA"
    /\ pc = "imported"
    /\ queries < MaxQueries
    /\ queries' = queries + 1
    /\ index' = [index EXCEPT !.nodes = Append(@, [file |-> 0])]
    /\ \E reply \in QueryOutcomes(index) :
        /\ outcome' = [kind |-> reply.kind, query |-> query, reply |-> reply]
        /\ IF reply.kind = "error"
           THEN raised' = reply.error /\ returned' = NoValue
           ELSE raised' = NoError /\ returned' = str(reply)
    /\ UNCHANGED <<module, pc, adVars, brand_docs, documents, loads, builds,
                   feedVars>>

\* Lines 11-15: one call.  An exception of index.query leaves the function
\* as it is; the caller may call again.
query_brand_knowledge(query) ==
    /\ module = "brandDNA"
    /\ pc = "imported"
    /\ queries < MaxQueries
    /\ queries' = queries + 1
    /\ \E reply \in QueryOutcomes(index) :
        /\ outcome' = [kind |-> reply.kind, query |-> query, reply |-> reply]
        /\ IF reply.kind = "error"
           THEN raised' = reply.error /\ returned' = NoValue
           ELSE raised' = NoError /\ returned' = str(reply)
    /\ UNCHANGED <<module, pc, adVars, brand_docs, documents, index, loads,
                   builds, feedVars>>

Call_query_brand_knowledge ==
    \E query \in Queries : query_brand_knowledge(query)

\* ------------------------------------------------------- feedManager.py

\* Line 7.
feed_url == "https://www.gutenberg.org/cache/epub/69972/pg69972.txt"

\* What loader.load() can return: a list of any length of documents.
Document == [page_content |-> "text"]
Collections == {List([i \in 1 .. n |-> Document]) : n \in 0 .. MaxDocs}

\* Line 10, {len(documents)} in the f-string: the number in decimal.
RECURSIVE format(_)
format(n) ==
    IF n < 10 THEN <<Digits[n + 1]>>
    ELSE format(n \div 10) \o <<Digits[(n % 10) + 1]>>

ReportHead ==
    <<"L", "o", "a", "d", "e", "d", " ">>
ReportTail ==
    <<" ", "d", "o", "c", "u", "m", "e", "n", "t", "s", " ", "f", "r", "o",
      "m", " ", "f", "e", "e", "d">>

\* A slip: the count off by one.
report_off_by_one(docs) == ReportHead \o format(Len(docs.l) + 1) \o ReportTail

\* Line 10: the line printed for a collection.
report(docs) == ReportHead \o format(Len(docs.l)) \o ReportTail

\* Lines 7-8.  Constructing the loader may fail; else loader is bound.
ConstructLoader ==
    /\ module = "feedManager"
    /\ pc = "line8"
    /\ \/ /\ outcome' = [kind |-> "constructed"]
          /\ loader' = [kind |-> "GutenbergLoader", file_path |-> feed_url]
          /\ pc' = "line9"
          /\ UNCHANGED raised
       \/ /\ outcome' = [kind |-> "error", error |-> "ValueError"]
          /\ raised' = "ValueError"
          /\ pc' = "raised"
          /\ UNCHANGED loader
    /\ UNCHANGED <<module, returned, adVars, documents, brandVars, stdout>>

\* A slip: the load wrapped in try/except, an empty list taken on failure.
LoadFeedCaught ==
    /\ module = "feedManager"
    /\ pc = "line9"
    /\ \/ \E docs \in Collections :
            /\ outcome' = [kind |-> "loaded", documents |-> docs]
            /\ documents' = docs
       \/ \E e \in {"network failure", "parsing failure"} :
            /\ outcome' = [kind |-> "error", error |-> e]
            /\ documents' = List(<<>>)
    /\ pc' = "line10"
    /\ UNCHANGED <<module, raised, returned, adVars, brandVars, feedVars>>

\* Line 9.  The fetch or the parse may fail; else documents is bound.
LoadFeed ==
    /\ module = "feedManager"
    /\ pc = "line9"
    /\ \/ \E docs \in Collections :
            /\ outcome' = [kind |-> "loaded", documents |-> docs]
            /\ documents' = docs
            /\ pc' = "line10"
            /\ UNCHANGED raised
       \/ \E e \in {"network failure", "parsing failure"} :
            /\ outcome' = [kind |-> "error", error |-> e]
            /\ raised' = e
            /\ pc' = "raised"
            /\ UNCHANGED documents
    /\ UNCHANGED <<module, returned, adVars, brandVars, feedVars>>

\* Line 10, the last statement of the script.
PrintReport ==
    /\ module = "feedManager"
    /\ pc = "line10"
    /\ stdout' = Append(stdout, report(documents))
    /\ pc' = "done"
    /\ UNCHANGED <<module, raised, outcome, returned, adVars, documents,
                   brandVars, loader>>

\* ------------------------------------------------------- specification

Init ==
    /\ module \in {"adGenerator", "brandDNA", "feedManager"}
    /\ pc = IF module = "feedManager" THEN "line8" ELSE "line7"
    /\ raised = NoError
    /\ outcome = None
    /\ api_key = None
    /\ product_name = None
    /\ product_details = None
    /\ requests = <<>>
    /\ returned = NoValue
    /\ brand_docs \in IF module = "brandDNA" THEN Directories ELSE {Missing}
    /\ documents = None
    /\ index = None
    /\ loads = 0
    /\ builds = 0
    /\ queries = 0
    /\ loader = None
    /\ stdout = <<>>

Next ==
    \/ ImportAdGenerator
    \/ Call_generate_ad_copy
    \/ LoadBrandDocuments
    \/ BuildBrandIndex
    \/ DefineQueryBrandKnowledge
    \/ Call_query_brand_knowledge
    \/ ConstructLoader
    \/ LoadFeed
    \/ PrintReport

Spec == Init /\ [][Next]_vars

\* ------------------------------------------------------------- claims

Contains(s, sub) ==
    \E i \in 1 .. (Len(s) + 1) :
        /\ i + Len(sub) - 1 <= Len(s)
        /\ SubSeq(s, i, i + Len(sub) - 1) = sub

\* r is t without its leading and trailing whitespace, said without strip.
IsTrimOf(r, t) ==
    \E i \in 1 .. (Len(t) + 1), j \in 0 .. Len(t) :
        /\ r = SubSeq(t, i, j)
        /\ \A k \in 1 .. (i - 1) : t[k] \in Whitespace
        /\ \A k \in (j + 1) .. Len(t) : t[k] \in Whitespace
        /\ r = <<>> \/ (r[1] \notin Whitespace /\ r[Len(r)] \notin Whitespace)

DigitValue(c) == CHOOSE d \in 0 .. 9 : Digits[d + 1] = c

RECURSIVE parse(_)
parse(ds) ==
    IF ds = <<>> THEN 0
    ELSE 10 * parse(SubSeq(ds, 1, Len(ds) - 1)) + DigitValue(ds[Len(ds)])

\* The number a printed line reports: what stands between its fixed parts.
ReportedCount(line) ==
    parse(SubSeq(line, Len(ReportHead) + 1, Len(line) - Len(ReportTail)))

\* A call of generate_ad_copy has been made and has ended.
Called == module = "adGenerator" /\ pc \in {"returned", "raised"}

\* The service answered with a response whose first choice holds a text.
FirstText ==
    /\ outcome.kind = "response"
    /\ outcome.choices # <<>>
    /\ outcome.choices[1].message.content # None

\* C1: the one request of a call of generate_ad_copy carries one message, of
\* role user, whose text contains product_name and product_details, each as
\* an unmodified contiguous substring.
C1_PromptVerbatim ==
    Called =>
        /\ Len(requests) = 1
        /\ Len(requests[1].messages) = 1
        /\ requests[1].messages[1].role = "user"
        /\ Contains(requests[1].messages[1].content, product_name.s)
        /\ Contains(requests[1].messages[1].content, product_details.s)

C1_Witness ==
    /\ Called
    /\ product_name = Str(<<"X", "'">>)
    /\ product_details = Str(<<" ">>)

\* C2: a value generate_ad_copy returns neither begins nor ends with a
\* whitespace character, whatever text the first choice held.
C2_NoSurroundingWhitespace ==
    (Called /\ returned # NoValue) =>
        \/ returned.s = <<>>
        \/ /\ returned.s[1] \notin Whitespace
           /\ returned.s[Len(returned.s)] \notin Whitespace

\* An all-whitespace text was answered and a value returned.
C2_Witness ==
    /\ Called
    /\ returned # NoValue
    /\ FirstText
    /\ outcome.choices[1].message.content = Str(<<" ", "\n", " ">>)

\* C3: query_brand_knowledge is callable, and queries are made, only once
\* documents is loaded and index is built from it; when the load or the build
\* fails the function is never callable and no query is made.
C3_QueryOnlyAfterIndex ==
    module = "brandDNA" =>
        /\ (pc = "imported" \/ queries > 0 \/ ENABLED Call_query_brand_knowledge)
            => /\ documents # None
               /\ index # None
               /\ index = from_documents(documents)
               /\ pc = "imported"
        /\ pc = "raised"
            => /\ queries = 0
               /\ ~ENABLED Call_query_brand_knowledge

C3_Witness ==
    /\ module = "brandDNA"
    /\ queries > 0
    /\ returned # NoValue
    /\ index = from_documents(documents)

\* C4: once the script has run to its end the count was reported exactly
\* once and is the length of the collection load() returned; before that
\* nothing more than one line was printed.
C4_ReportedCount ==
    module = "feedManager" =>
        /\ Len(stdout) <= 1
        /\ pc = "done"
            => /\ Len(stdout) = 1
               /\ outcome.kind = "loaded"
               /\ ReportedCount(stdout[1]) = Len(outcome.documents.l)

\* The loader returned the empty collection and the count was reported.
C4_Witness ==
    /\ module = "feedManager"
    /\ pc = "done"
    /\ outcome.documents.l = <<>>
    /\ stdout # <<>>

\* C5: a call sends exactly one request; when the service call fails the
\* call returns no value and the same failure reaches the caller.
C5_FailurePropagates ==
    Called =>
        /\ Len(requests) = 1
        /\ outcome.kind = "error"
            => /\ pc = "raised"
               /\ raised = outcome.error
               /\ returned = NoValue

C5_Witness ==
    /\ Called
    /\ outcome.kind = "error"
    /\ raised = "rate limited"

\* C6, as claimed: a response with no choices, with a first choice without
\* text, or with a first choice whose text is empty ends the call in a
\* failure.
C6_EmptyResponseFails ==
    (Called /\ outcome.kind = "response"
        /\ \/ outcome.choices = <<>>
           \/ outcome.choices[1].message.content = None
           \/ outcome.choices[1].message.content = Str(<<>>))
    => (pc = "raised" /\ raised # NoError /\ returned = NoValue)

\* C6, amended: a response with no choices or with a first choice without
\* text ends the call in a failure; a first choice whose text is empty makes
\* the call return the empty string.
C6_MalformedFailsEmptyReturns ==
    (Called /\ outcome.kind = "response") =>
        /\ (outcome.choices = <<>> \/ outcome.choices[1].message.content = None)
            => (pc = "raised" /\ raised # NoError /\ returned = NoValue)
        /\ (outcome.choices # <<>>
                /\ outcome.choices[1].message.content = Str(<<>>))
            => (pc = "returned" /\ raised = NoError /\ returned = Str(<<>>))

C6_Witness ==
    /\ Called
    /\ outcome.kind = "response"
    /\ outcome.choices # <<>>
    /\ outcome.choices[1].message.content = None
    /\ raised = "AttributeError"

\* C7: a line is printed only in a run whose load succeeded; when the
\* construction of the loader or the load fails, the failure propagates and
\* nothing is printed.
C7_NoCountOnFailure ==
    module = "feedManager" =>
        /\ stdout # <<>> => (outcome.kind = "loaded" /\ raised = NoError)
        /\ outcome.kind = "error"
            => (pc = "raised" /\ raised = outcome.error /\ stdout = <<>>)

C7_Witness ==
    /\ module = "feedManager"
    /\ pc = "raised"
    /\ loader # None
    /\ raised = "parsing failure"

\* C8: once the module is imported, and after any number of queries, exactly
\* one load of the documents and one construction of the index were made.
C8_BuiltOnce ==
    (module = "brandDNA" /\ (pc = "imported" \/ queries > 0)) =>
        (loads = 1 /\ builds = 1)

C8_Witness ==
    /\ module = "brandDNA"
    /\ queries = MaxQueries
    /\ loads = 1
    /\ builds = 1

\* C9: no step taken once the module is imported, a query that answers or a
\* query that fails, changes index or documents.
C9_IndexReadOnly ==
    [][(module = "brandDNA" /\ pc = "imported")
        => (index' = index /\ documents' = documents)]_vars

\* A second query, or a later one, failed on the index.
C9_Witness ==
    /\ module = "brandDNA"
    /\ queries >= 2
    /\ raised = "query failure"
    /\ index = from_documents(documents)

\* C10: when the first choice holds a text, the call returns that text
\* without its leading and trailing whitespace, whatever the later choices.
C10_TrimmedFirstChoice ==
    (Called /\ FirstText) =>
        /\ pc = "returned"
        /\ returned # NoValue
        /\ IsTrimOf(returned.s, outcome.choices[1].message.content.s)

\* Two choices were answered; the first held whitespace around its text.
C10_Witness ==
    /\ Called
    /\ FirstText
    /\ Len(outcome.choices) = 2
    /\ outcome.choices[1].message.content = Str(<<" ", "a", "\n">>)
    /\ returned = Str(<<"a">>)

====
